---------------------------- MODULE Spec2Model ----------------------------
(***************************************************************************)
(* State-machine model of TopologicalMemoryPlanner                         *)
(* (tensorflow/lite/micro/memory_planner/topological_memory_planner.cc).   *)
(*                                                                         *)
(* Arrays of the planner are functions over 0..n-1, a ListEntry pointer is *)
(* the index of the entry in buffers_sorted_by_offset_ and nullptr is -1.  *)
(* A call that never returns (a walk over a cyclic next_entry_index chain) *)
(* leaves the planner in the state hung = TRUE, from which no call is made.*)
(*                                                                         *)
(* Where the translation unit does not name a declared symbol, the model   *)
(* reads it as the declared one: operator_info_ / ops_requirements_ are    *)
(* one operator table, operator_size_ / operators_size_ one count,         *)
(* calConv2DMemPaddingLen is CalForwardConv2DMemPaddingLen, first_entry is *)
(* &buffers_sorted_by_offset_[first_entry_index_], the placement loop      *)
(* advances idx, and NextSimultaneouslyActiveBuffer receives the wanted    *)
(* last_time_used as its third argument.                                   *)
(***************************************************************************)
EXTENDS Integers, Sequences, FiniteSets, TLC

(***************************************************************************)
(* Bounds of the model.                                                    *)
(***************************************************************************)
\* largest max_buffer_count_ a scratch region of the model yields
MaxBuffers == 3
\* largest spatial extent / channel count of the CONV_2D geometries explored
MaxDim == 2

\* sentinel of BufferRequirements::offline_offset for an online buffer
kOnlinePlannedBuffer == -1

Max(a, b) == IF a > b THEN a ELSE b
Min(a, b) == IF a < b THEN a ELSE b

(***************************************************************************)
(* SortInPlace2Level and its comparison.                                   *)
(***************************************************************************)
\* .cc:63-65.  Both arms of the conditional compare val1; val2 is not read.
needSwap2Level(val1, val2, idx1, idx2) ==
    IF val1[idx1] # val1[idx2] THEN val1[idx1] > val1[idx2]
                               ELSE val1[idx1] < val1[idx2]

\* a swap that loses the element of the lower slot
OverwriteAt(arr, i) == [arr EXCEPT ![i - 1] = arr[i]]

\* the three assignments of one swap, .cc:79-87
SwapAt(arr, i) == [arr EXCEPT ![i - 1] = arr[i], ![i] = arr[i - 1]]

\* one pass of the for loop of .cc:77-90, from index i on; a is the record
\* [val1s, val2s, ids, any_swapped]
RECURSIVE SortPass(_, _, _)
SortPass(a, i, size) ==
    IF i >= size THEN a
    ELSE IF needSwap2Level(a.val1s, a.val2s, i, i - 1)
         THEN SortPass([val1s |-> SwapAt(a.val1s, i),
                        val2s |-> SwapAt(a.val2s, i),
                        ids |-> SwapAt(a.ids, i),
                        any_swapped |-> TRUE], i + 1, size)
         ELSE SortPass(a, i + 1, size)

\* the do-while of .cc:75-91; fuel bounds the number of passes, and the
\* result carries done = FALSE when the passes never stop swapping
RECURSIVE SortLoop(_, _, _)
SortLoop(a, size, fuel) ==
    LET p == SortPass([a EXCEPT !.any_swapped = FALSE], 1, size)
    IN  IF ~p.any_swapped THEN [val1s |-> p.val1s, val2s |-> p.val2s,
                                ids |-> p.ids, done |-> TRUE]
        ELSE IF fuel = 0 THEN [val1s |-> p.val1s, val2s |-> p.val2s,
                               ids |-> p.ids, done |-> FALSE]
        ELSE SortLoop(p, size, fuel - 1)

\* .cc:73-92.  A bubble sort that swaps only strictly ordered neighbours
\* removes one inversion per swap, so size*size passes are never exhausted
\* by a terminating sort.
SortInPlace2Level(val1s, val2s, ids, size) ==
    SortLoop([val1s |-> val1s, val2s |-> val2s, ids |-> ids,
              any_swapped |-> FALSE], size, size * size + 1)

(***************************************************************************)
(* CONV_2D geometry.                                                       *)
(***************************************************************************)
\* a ConvOpParams value
ConvParams(ih, iw, ic, fh, fw, oh, ow, oc, pad, sh, sw) ==
    [input_height |-> ih, input_width |-> iw, input_channel |-> ic,
     filter_height |-> fh, filter_width |-> fw,
     output_height |-> oh, output_width |-> ow, output_channel |-> oc,
     padding |-> pad, stride_height |-> sh, stride_width |-> sw]

\* .cc:102-105: max(0, min(out - 1, floor((in + padding) / filter)))
LastChild(in_i, padding, filter, out) ==
    Max(0, Min(out - 1, (in_i + padding) \div filter))

\* .cc:99-111, the double loop flattened to the row-major input index n
RECURSIVE ConvCurEnd(_, _, _)
ConvCurEnd(p, n, curend) ==
    IF n >= p.input_height * p.input_width THEN curend
    ELSE LET in_hi == n \div p.input_width
             in_wi == n % p.input_width
             child_hi == LastChild(in_hi, p.padding, p.filter_height,
                                   p.output_height)
             child_wi == LastChild(in_wi, p.padding, p.filter_width,
                                   p.output_width)
             outmem_pos_lastchild ==
                 (child_hi * p.output_width + child_wi + 1) * p.output_channel
         IN  ConvCurEnd(p, n + 1,
                        Max(curend, outmem_pos_lastchild) + p.input_channel)

\* .cc:96-114
CalForwardConv2DMemPaddingLen(op_params) ==
    ConvCurEnd(op_params, 0, 0)
      - op_params.input_height * op_params.input_width
          * op_params.input_channel

(***************************************************************************)
(* Operator table.                                                         *)
(***************************************************************************)
OpTypes == {"CONV_2D", "ADD", "MUL"}

\* The set of operator kinds whose output may share memory with the input.
\* IsOverlapOrInplaceOperator is called at .cc:311 and defined nowhere in
\* the sources; the admitted set is the one the specification states.
IsOverlapOrInplaceOperator(op_type) == op_type \in {"CONV_2D", "ADD"}

(***************************************************************************)
(* The offset-ordered list.                                                *)
(***************************************************************************)
ListEntry(offset, requirements_index, next_entry_index) ==
    [offset |-> offset, requirements_index |-> requirements_index,
     next_entry_index |-> next_entry_index]

\* .cc:239-251
DoesEntryOverlapInTime(requirements, entry, first_time_used, last_time_used) ==
    LET entry_requirements == requirements[entry.requirements_index]
    IN  IF entry_requirements.first_time_used > last_time_used THEN FALSE
        ELSE IF first_time_used > entry_requirements.last_time_used THEN FALSE
        ELSE TRUE

\* the do-while of .cc:267-278 from candidate_next_entry on.  The list is
\* not written by the walk, so a candidate seen twice means the walk never
\* ends: diverges = TRUE.
RECURSIVE ActiveWalk(_, _, _, _, _, _)
ActiveWalk(list, requirements, candidate, first_time_used, last_time_used, seen) ==
    IF candidate \in seen THEN [ptr |-> -1, diverges |-> TRUE]
    ELSE IF DoesEntryOverlapInTime(requirements, list[candidate],
                                   first_time_used, last_time_used)
         THEN [ptr |-> candidate, diverges |-> FALSE]
    ELSE IF list[candidate].next_entry_index = -1
         THEN [ptr |-> -1, diverges |-> FALSE]
    ELSE ActiveWalk(list, requirements, list[candidate].next_entry_index,
                    first_time_used, last_time_used, seen \cup {candidate})

\* .cc:253-280; start = -1 is the null pointer
NextSimultaneouslyActiveBuffer(list, first_entry_index, requirements, start, first_time_used, last_time_used) ==
    IF start = -1
    THEN ActiveWalk(list, requirements, first_entry_index,
                    first_time_used, last_time_used, {})
    ELSE IF list[start].next_entry_index = -1
         THEN [ptr |-> -1, diverges |-> FALSE]
    ELSE ActiveWalk(list, requirements, list[start].next_entry_index,
                    first_time_used, last_time_used, {})

(***************************************************************************)
(* Overlap admission.                                                      *)
(***************************************************************************)
\* .cc:282-301.  The function returns a value on two paths only: CONV_2D
\* with in.last_time_used = out.first_time_used, and ADD.  CalCurrentOffset
\* calls it on no other path.
CalculatePaddingLen(op_requirement, in_requirements, out_requirements) ==
    CASE op_requirement.op_type = "CONV_2D"
           /\ in_requirements.last_time_used = out_requirements.first_time_used
           -> CalForwardConv2DMemPaddingLen(op_requirement.params)
                + in_requirements.size - out_requirements.size
      [] op_requirement.op_type = "ADD" -> 0

\* the operator CalCurrentOffset stops at (.cc:309-317), or -1 when the for
\* loop ends without a match
RECURSIVE AdmittingOperator(_, _, _, _, _)
AdmittingOperator(ops, operators_size, prior_requirements, current_requirements, i) ==
    IF i >= operators_size THEN -1
    ELSE IF current_requirements.output_of_operators[i]
            /\ IsOverlapOrInplaceOperator(ops[i].op_type)
            /\ prior_requirements.input_of_operators[i]
            /\ prior_requirements.last_time_used
                 = current_requirements.first_time_used
         THEN i
    ELSE AdmittingOperator(ops, operators_size, prior_requirements,
                           current_requirements, i + 1)

\* .cc:303-330: the offset returned and the operator table after the call
CalCurrentOffset(ops, operators_size, prior_entry, prior_requirements, current_requirements) ==
    LET i == AdmittingOperator(ops, operators_size, prior_requirements,
                               current_requirements, 0)
    IN  IF i = -1
        THEN [offset |-> prior_entry.offset + prior_requirements.size,
              ops |-> ops]
        ELSE LET padding == CalculatePaddingLen(ops[i], prior_requirements,
                                                current_requirements)
             IN  [offset |-> prior_entry.offset + padding,
                  ops |-> IF padding > 0
                          THEN [ops EXCEPT ![i].reverse = TRUE]
                          ELSE ops]

(***************************************************************************)
(* Placement.                                                              *)
(***************************************************************************)
\* the while (true) of .cc:383-415 for the buffer `wanted`.  The loop state
\* that decides its control flow is (prior_entry, candidate_offset); the
\* list is not written by the loop, so a state seen twice means the loop
\* never ends.
RECURSIVE GapScan(_, _, _, _, _, _, _, _, _)
GapScan(list, first_entry_index, requirements, ops, operators_size, wanted, prior_entry, candidate_offset, seen) ==
    LET wanted_requirements == requirements[wanted]
        next_entry ==
            NextSimultaneouslyActiveBuffer(
                list, first_entry_index, requirements, prior_entry,
                wanted_requirements.first_time_used,
                wanted_requirements.last_time_used)
        bump == IF prior_entry # -1
                THEN CalCurrentOffset(
                         ops, operators_size, list[prior_entry],
                         requirements[list[prior_entry].requirements_index],
                         wanted_requirements)
                ELSE [offset |-> candidate_offset, ops |-> ops]
        candidate == IF prior_entry # -1 /\ bump.offset > candidate_offset
                     THEN bump.offset ELSE candidate_offset
    IN  IF next_entry.diverges
        THEN [offset |-> candidate_offset, ops |-> ops, diverges |-> TRUE]
        ELSE IF next_entry.ptr = -1
        THEN [offset |-> candidate, ops |-> bump.ops, diverges |-> FALSE]
        ELSE IF list[next_entry.ptr].offset - candidate
                  >= wanted_requirements.size
        THEN [offset |-> candidate, ops |-> bump.ops, diverges |-> FALSE]
        ELSE IF <<next_entry.ptr, candidate>> \in seen
        THEN [offset |-> candidate, ops |-> bump.ops, diverges |-> TRUE]
        ELSE GapScan(list, first_entry_index, requirements, bump.ops,
                     operators_size, wanted, next_entry.ptr, candidate,
                     seen \cup {<<next_entry.ptr, candidate>>})

\* the while (true) of .cc:444-462 from current_entry on
RECURSIVE InsertWalk(_, _, _, _, _)
InsertWalk(list, current_entry, new_entry_index, candidate_offset, seen) ==
    LET next_entry_index == list[current_entry].next_entry_index
    IN  IF current_entry \in seen THEN [list |-> list, diverges |-> TRUE]
        ELSE IF next_entry_index = -1
        THEN LET l1 == [list EXCEPT
                          ![current_entry].next_entry_index = new_entry_index]
             IN  [list |-> [l1 EXCEPT ![new_entry_index].next_entry_index = -1],
                  diverges |-> FALSE]
        ELSE IF list[next_entry_index].offset > candidate_offset
        THEN LET l1 == [list EXCEPT ![new_entry_index].next_entry_index =
                                         list[current_entry].next_entry_index]
             IN  [list |-> [l1 EXCEPT
                              ![current_entry].next_entry_index = new_entry_index],
                  diverges |-> FALSE]
        ELSE InsertWalk(list, next_entry_index, new_entry_index,
                        candidate_offset, seen \cup {current_entry})

\* .cc:428-463: the new entry is written at next_free_entry_ and linked in.
\* first_entry is the entry at first_entry_index_ (.cc:434, 437-439).
InsertEntry(list, first_entry_index, next_free_entry, buffer_id, candidate_offset) ==
    LET new_entry_index == next_free_entry
        l0 == [list EXCEPT ![new_entry_index].offset = candidate_offset,
                           ![new_entry_index].requirements_index = buffer_id]
    IN  IF l0[first_entry_index].offset > candidate_offset
        THEN [list |-> [l0 EXCEPT ![new_entry_index].next_entry_index =
                                     first_entry_index],
              first_entry_index |-> new_entry_index,
              diverges |-> FALSE]
        ELSE LET w == InsertWalk(l0, first_entry_index, new_entry_index,
                                 candidate_offset, {})
             IN  [list |-> w.list, first_entry_index |-> first_entry_index,
                  diverges |-> w.diverges]

\* the first loop of .cc:341-357 from buffer i on: online buffers fill the
\* sort arrays from the tail, pinned ones from the head
RECURSIVE Partition(_, _, _)
Partition(p, i, a) ==
    IF i >= p.buffer_count_ THEN a
    ELSE IF p.requirements_[i].offline_offset = kOnlinePlannedBuffer
    THEN LET t == a.idx_from_tail - 1
         IN  Partition(p, i + 1,
               [a EXCEPT
                  !.idx_from_tail = t,
                  !.created = [@ EXCEPT ![t] = p.requirements_[i].first_time_used],
                  !.last_used = [@ EXCEPT ![t] = p.requirements_[i].last_time_used],
                  !.ids = [@ EXCEPT ![t] = i],
                  !.offsets = [@ EXCEPT ![i] = -1]])
    ELSE LET h == a.idx_from_head
         IN  Partition(p, i + 1,
               [a EXCEPT
                  !.idx_from_head = h + 1,
                  !.created = [@ EXCEPT ![h] = p.requirements_[i].last_time_used],
                  !.last_used = [@ EXCEPT ![h] = p.requirements_[i].last_time_used],
                  !.ids = [@ EXCEPT ![h] = i],
                  !.offsets = [@ EXCEPT ![i] = p.requirements_[i].offline_offset]])

\* .cc:362-365: the sort of the sub-arrays that start at idx_from_head
SortTail(a, idx_from_head, buffer_count) ==
    LET n == buffer_count - idx_from_head
        sub(arr) == [k \in 0..(n - 1) |-> arr[k + idx_from_head]]
        s == SortInPlace2Level(sub(a.created), sub(a.last_used), sub(a.ids), n)
        put(arr, sorted) == [k \in DOMAIN arr |->
                               IF k >= idx_from_head
                               THEN sorted[k - idx_from_head] ELSE arr[k]]
    IN  [created |-> put(a.created, s.val1s),
         last_used |-> put(a.last_used, s.val2s),
         ids |-> put(a.ids, s.ids),
         done |-> s.done]

\* a placement that starts a pinned buffer at offset 0 like an online one
OfflineCandidateZero(wanted_requirements) == 0

\* .cc:417-420: the offset of a pinned buffer is taken as given
OfflineCandidate(wanted_requirements) == wanted_requirements.offline_offset

\* one iteration of the placement loop of .cc:372-464, for position idx of
\* buffer_ids_sorted_, and the iterations after it
RECURSIVE PlaceFrom(_, _)
PlaceFrom(p, idx) ==
    IF idx >= p.buffer_count_ \/ p.hung THEN p
    ELSE
    LET buffer_id == p.buffer_ids_sorted_[idx]
        wanted_requirements == p.requirements_[buffer_id]
        scan == IF wanted_requirements.offline_offset = kOnlinePlannedBuffer
                THEN GapScan(p.buffers_sorted_by_offset_, p.first_entry_index_,
                             p.requirements_, p.operator_info_,
                             p.operator_size_, buffer_id, -1, 0, {})
                ELSE [offset |-> OfflineCandidate(wanted_requirements),
                      ops |-> p.operator_info_, diverges |-> FALSE]
        ins == InsertEntry(p.buffers_sorted_by_offset_, p.first_entry_index_,
                           p.next_free_entry_, buffer_id, scan.offset)
    IN  IF scan.diverges
        THEN [p EXCEPT !.operator_info_ = scan.ops, !.hung = TRUE]
        ELSE PlaceFrom(
               [p EXCEPT
                  !.operator_info_ = scan.ops,
                  !.buffer_offsets_ = [@ EXCEPT ![buffer_id] = scan.offset],
                  !.buffers_sorted_by_offset_ = ins.list,
                  !.first_entry_index_ = ins.first_entry_index,
                  !.next_free_entry_ = p.next_free_entry_ + 1,
                  !.hung = ins.diverges],
               idx + 1)

\* a test that forgets need_to_calculate_offsets_
NoBuffers(p) == p.buffer_count_ = 0

\* .cc:334: the test under which CalculateOffsetsIfNeeded returns at once
NothingToCalculate(p) ==
    ~p.need_to_calculate_offsets_ \/ p.buffer_count_ = 0

\* .cc:335-369: the planner when the placement loop is entered
SortedForPlacement(p) ==
    LET n == p.buffer_count_
        zero == [k \in 0..(n - 1) |-> 0]
        parts == Partition(p, 0,
                   [idx_from_tail |-> n, idx_from_head |-> 0,
                    created |-> zero, last_used |-> zero, ids |-> zero,
                    offsets |-> zero])
        sorted == SortTail(parts, parts.idx_from_head, n)
        q == [p EXCEPT
                !.need_to_calculate_offsets_ = FALSE,
                !.buffer_created_sorted_ = sorted.created,
                !.buffer_last_used_sorted_ = sorted.last_used,
                !.buffer_ids_sorted_ = sorted.ids,
                !.buffer_offsets_ = parts.offsets,
                !.first_entry_index_ = 0,
                !.next_free_entry_ = 0,
                !.hung = ~sorted.done]
    IN  q

\* .cc:333-465
CalculateOffsetsIfNeeded(p) ==
    IF NothingToCalculate(p) THEN p
    ELSE PlaceFrom(SortedForPlacement(p), 0)

(***************************************************************************)
(* Queries, as functions of the planner state after                        *)
(* CalculateOffsetsIfNeeded.                                               *)
(***************************************************************************)
\* the while (entry) of .cc:474-485 from entry on
RECURSIVE MaxSizeWalk(_, _, _, _, _)
MaxSizeWalk(list, requirements, entry, max_size, seen) ==
    LET current_size == list[entry].offset
                          + requirements[list[entry].requirements_index].size
        m == IF current_size > max_size THEN current_size ELSE max_size
    IN  IF entry \in seen THEN [value |-> max_size, diverges |-> TRUE]
        ELSE IF list[entry].next_entry_index = -1
        THEN [value |-> m, diverges |-> FALSE]
        ELSE MaxSizeWalk(list, requirements, list[entry].next_entry_index, m,
                         seen \cup {entry})

\* a size that looks at the first list entry only
SizeOfFirstEntry(q) ==
    IF q.buffer_count_ = 0 THEN [value |-> 0, diverges |-> FALSE]
    ELSE LET entry == q.buffers_sorted_by_offset_[q.first_entry_index_]
         IN  [value |-> entry.offset
                          + q.requirements_[entry.requirements_index].size,
              diverges |-> FALSE]

\* .cc:469-486, on the state q that CalculateOffsetsIfNeeded left
MaximumMemorySize(q) ==
    IF q.buffer_count_ = 0 THEN [value |-> 0, diverges |-> FALSE]
    ELSE MaxSizeWalk(q.buffers_sorted_by_offset_, q.requirements_,
                     q.first_entry_index_, 0, {})

\* the test of .cc:583-592 for the pair (i, j)
PairOverlaps(q, i, j) ==
    LET a == q.requirements_[i]
        b == q.requirements_[j]
        a_start_offset == q.buffer_offsets_[i]
        b_start_offset == q.buffer_offsets_[j]
        a_end_offset == a_start_offset + a.size
        b_end_offset == b_start_offset + b.size
    IN  /\ ~(a.first_time_used > b.last_time_used
             \/ b.first_time_used > a.last_time_used)
        /\ ~(a_start_offset >= b_end_offset \/ b_start_offset >= a_end_offset)

\* .cc:567-600, on the state q that CalculateOffsetsIfNeeded left
AnyBuffersOverlap(q) ==
    \E i \in 0..(q.buffer_count_ - 1) : \E j \in 0..(q.buffer_count_ - 1) :
        i # j /\ PairOverlaps(q, i, j)

(***************************************************************************)
(* State.                                                                  *)
(***************************************************************************)
VARIABLES
    operator_size_,              \* number of operators given to the constructor
    max_buffer_count_,
    buffer_count_,
    need_to_calculate_offsets_,
    requirements_,               \* [0..buffer_count_-1 -> BufferRequirements]
    operator_info_,              \* [0..operator_size_-1 -> operator record]
    buffer_created_sorted_,
    buffer_last_used_sorted_,
    buffer_ids_sorted_,
    buffers_sorted_by_offset_,   \* [0..max_buffer_count_-1 -> ListEntry]
    next_free_entry_,
    first_entry_index_,
    buffer_offsets_,
    hung,                        \* a call was entered and never returns
    wild_write,                  \* a call wrote outside the array it indexes
    last,                        \* the last call and what it returned
    conv_params,                 \* argument of the geometry computation
    conv_result,                 \* its result
    sort_input,                  \* arrays handed to SortInPlace2Level
    sort_result                  \* the arrays it left

planner_vars == <<operator_size_, max_buffer_count_, buffer_count_,
                  need_to_calculate_offsets_, requirements_, operator_info_,
                  buffer_created_sorted_, buffer_last_used_sorted_,
                  buffer_ids_sorted_, buffers_sorted_by_offset_,
                  next_free_entry_, first_entry_index_, buffer_offsets_, hung,
                  wild_write, last>>

conv_vars == <<conv_params, conv_result>>

sort_vars == <<sort_input, sort_result>>

vars == <<planner_vars, conv_vars, sort_vars>>

\* the planner object as one record
Self ==
    [operator_size_ |-> operator_size_,
     max_buffer_count_ |-> max_buffer_count_,
     buffer_count_ |-> buffer_count_,
     need_to_calculate_offsets_ |-> need_to_calculate_offsets_,
     requirements_ |-> requirements_,
     operator_info_ |-> operator_info_,
     buffer_created_sorted_ |-> buffer_created_sorted_,
     buffer_last_used_sorted_ |-> buffer_last_used_sorted_,
     buffer_ids_sorted_ |-> buffer_ids_sorted_,
     buffers_sorted_by_offset_ |-> buffers_sorted_by_offset_,
     next_free_entry_ |-> next_free_entry_,
     first_entry_index_ |-> first_entry_index_,
     buffer_offsets_ |-> buffer_offsets_,
     hung |-> hung]

\* the planner object becomes q
Becomes(q) ==
    /\ operator_size_' = q.operator_size_
    /\ max_buffer_count_' = q.max_buffer_count_
    /\ buffer_count_' = q.buffer_count_
    /\ need_to_calculate_offsets_' = q.need_to_calculate_offsets_
    /\ requirements_' = q.requirements_
    /\ operator_info_' = q.operator_info_
    /\ buffer_created_sorted_' = q.buffer_created_sorted_
    /\ buffer_last_used_sorted_' = q.buffer_last_used_sorted_
    /\ buffer_ids_sorted_' = q.buffer_ids_sorted_
    /\ buffers_sorted_by_offset_' = q.buffers_sorted_by_offset_
    /\ next_free_entry_' = q.next_free_entry_
    /\ first_entry_index_' = q.first_entry_index_
    /\ buffer_offsets_' = q.buffer_offsets_
    /\ hung' = q.hung

\* what a call left behind: its name, its index argument, the status or
\* value it returned and the caller's offset variable (-1 before the call,
\* as in the tests).  For a query, after tells what the call before it was.
Returned(call, arg, status, value, flag, offset) ==
    [call |-> call, arg |-> arg, status |-> status, value |-> value,
     flag |-> flag, offset |-> offset, after |-> ""]

NeverReturns(call, arg) == Returned(call, arg, "never", 0, FALSE, -1)

QueryCalls == {"GetOffsetForBuffer", "GetMaximumMemorySize",
               "DoAnyBuffersOverlap", "PrintMemoryPlan"}

AddCalls == {"AddBuffer", "AddBufferOffline"}

\* the call before the one being made: a query that returned, a successful
\* AddBuffer made after a plan had been computed, a successful AddBuffer
\* made before any plan, or anything else
Preceding ==
    IF last.call \in QueryCalls /\ last.status # "never" THEN "query"
    ELSE IF last.call \in AddCalls /\ last.status = "kTfLiteOk"
    THEN IF DOMAIN buffer_offsets_ # {} THEN "add to a plan" ELSE "add"
    ELSE "other"

\* the record r of a query, with the call that preceded it
Asked(r) == [r EXCEPT !.after = Preceding]

(***************************************************************************)
(* Inputs of the calls and contents of the scratch region.                 *)
(***************************************************************************)
\* number of operators the planner of Spec is constructed for
NumOperators == 1

OnlyOperator(n, k) == [j \in 0..(n - 1) |-> j = k]
NoOperator(n) == [j \in 0..(n - 1) |-> FALSE]

BufferArgs(size, first_time_used, last_time_used, input_of_operators, output_of_operators) ==
    [size |-> size, first_time_used |-> first_time_used,
     last_time_used |-> last_time_used,
     input_of_operators |-> input_of_operators,
     output_of_operators |-> output_of_operators]

\* a 1x2x1 input convolved 1x1 with stride 1 into a 1x2x2 output
ConvWide == ConvParams(1, 2, 1, 1, 1, 1, 2, 2, 0, 1, 1)

\* arguments of AddOperatorInfo: the kind and, for CONV_2D, the geometry
OperatorInputs ==
    {[op_type |-> "MUL", params |-> ConvWide],
     [op_type |-> "ADD", params |-> ConvWide],
     [op_type |-> "CONV_2D", params |-> ConvWide]}

\* arguments of the online AddBuffer overload for n operators
OnlineInputs(n) ==
    {BufferArgs(2, 1, 1, OnlyOperator(n, 0), NoOperator(n)),
     BufferArgs(4, 1, 2, NoOperator(n), OnlyOperator(n, 0)),
     BufferArgs(2, 0, 0, NoOperator(n), NoOperator(n))}

\* arguments of the pinned AddBuffer overload for n operators
OfflineInputs(n) ==
    {[args |-> BufferArgs(2, 0, 1, OnlyOperator(n, 0), NoOperator(n)),
      offline_offset |-> 0],
     [args |-> BufferArgs(2, 1, 2, NoOperator(n), NoOperator(n)),
      offline_offset |-> 1]}

\* What the scratch region holds where the constructor places the operator
\* table and buffers_sorted_by_offset_.  The constructor initialises neither
\* (op_type, params and reverse of an operator; offset, requirements_index
\* and next_entry_index of a list entry), and the placement loop reads entry
\* 0 before the first insertion has linked it.  A zero-filled region reads
\* as operator kind ADD (BuiltinOperator value 0), reverse = false and list
\* entries (0, 0, 0); the two other contents are a region used before.
Scratch ==
    {[operator |-> [op_type |-> "ADD", params |-> ConvWide, reverse |-> FALSE],
      entry |-> ListEntry(0, 0, 0)],
     [operator |-> [op_type |-> "MUL", params |-> ConvWide, reverse |-> FALSE],
      entry |-> ListEntry(64, 0, -1)],
     [operator |-> [op_type |-> "ADD", params |-> ConvWide, reverse |-> TRUE],
      entry |-> ListEntry(0, 0, -1)]}

EmptyArray == [k \in {} |-> 0]

(***************************************************************************)
(* Construction.                                                           *)
(***************************************************************************)
NoCall == Returned("none", 0, "void", 0, FALSE, -1)

\* .cc:116-154.  max_buffer_count_ is computed from the scratch size and from
\* operator_size_, which is read at .cc:121 before it is assigned at .cc:122:
\* any capacity can result.
Constructed(operator_size, capacity, scratch_operator, scratch_entry) ==
    /\ operator_size_ = operator_size
    /\ max_buffer_count_ = capacity
    /\ buffer_count_ = 0
    /\ need_to_calculate_offsets_ = TRUE
    /\ requirements_ = EmptyArray
    /\ operator_info_ = [k \in 0..(operator_size - 1) |-> scratch_operator]
    /\ buffer_created_sorted_ = EmptyArray
    /\ buffer_last_used_sorted_ = EmptyArray
    /\ buffer_ids_sorted_ = EmptyArray
    /\ buffers_sorted_by_offset_ = [k \in 0..(capacity - 1) |-> scratch_entry]
    /\ next_free_entry_ = 0
    /\ first_entry_index_ = 0
    /\ buffer_offsets_ = EmptyArray
    /\ hung = FALSE
    /\ wild_write = FALSE
    /\ last = NoCall

ConvIdle ==
    /\ conv_params = ConvWide
    /\ conv_result = -1

\* SortInPlace2Level is not being called on its own
NoArrays == [val1s |-> EmptyArray, val2s |-> EmptyArray, ids |-> EmptyArray]

\* no call of it has been made
NotSorted == [val1s |-> EmptyArray, val2s |-> EmptyArray, ids |-> EmptyArray,
              done |-> FALSE, called |-> FALSE]

SortIdle ==
    /\ sort_input = NoArrays
    /\ sort_result = NotSorted

Init ==
    /\ \E capacity \in 0..MaxBuffers : \E scratch \in Scratch :
          Constructed(NumOperators, capacity, scratch.operator, scratch.entry)
    /\ ConvIdle
    /\ SortIdle

(***************************************************************************)
(* Calls.                                                                  *)
(***************************************************************************)
Callable == ~hung /\ ~wild_write

\* .cc:161-195.  Only operator_id >= operator_size_ is rejected; the slot
\* of a negative id lies before the table.  need_to_calculate_offsets_ is
\* not written.
AddOperatorInfo(operator_id, op) ==
    /\ Callable
    /\ IF operator_id >= operator_size_
       THEN /\ last' = Returned("AddOperatorInfo", operator_id,
                                "kTfLiteError", 0, FALSE, -1)
            /\ UNCHANGED <<operator_info_, wild_write>>
       ELSE IF operator_id < 0
       THEN /\ wild_write' = TRUE
            /\ last' = Returned("AddOperatorInfo", operator_id,
                                "kTfLiteOk", 0, FALSE, -1)
            /\ UNCHANGED operator_info_
       ELSE /\ operator_info_' =
                 [operator_info_ EXCEPT
                    ![operator_id].op_type = op.op_type,
                    ![operator_id].params =
                        IF op.op_type = "CONV_2D" THEN op.params ELSE @]
            /\ last' = Returned("AddOperatorInfo", operator_id,
                                "kTfLiteOk", 0, FALSE, -1)
            /\ UNCHANGED wild_write
    /\ UNCHANGED <<operator_size_, max_buffer_count_, buffer_count_,
                   need_to_calculate_offsets_, requirements_,
                   buffer_created_sorted_, buffer_last_used_sorted_,
                   buffer_ids_sorted_, buffers_sorted_by_offset_,
                   next_free_entry_, first_entry_index_, buffer_offsets_,
                   hung, conv_vars, sort_vars>>

\* a capacity test that is off by one
MoreThanMaxBuffers(p) == p.buffer_count_ > p.max_buffer_count_

\* .cc:201
TooManyBuffers(p) == p.buffer_count_ >= p.max_buffer_count_

\* .cc:221
MarkStale(p) == [p EXCEPT !.need_to_calculate_offsets_ = TRUE]

\* .cc:197-223 on the planner p: the planner after the call and the status
AddBufferTo(p, args) ==
    IF TooManyBuffers(p)
    THEN [planner |-> p, status |-> "kTfLiteError"]
    ELSE LET current ==
                 [size |-> args.size,
                  first_time_used |-> args.first_time_used,
                  last_time_used |-> args.last_time_used,
                  offline_offset |-> kOnlinePlannedBuffer,
                  input_of_operators |-> args.input_of_operators,
                  output_of_operators |-> args.output_of_operators]
         IN  [planner |->
                MarkStale(
                  [p EXCEPT
                     !.requirements_ =
                         [k \in 0..p.buffer_count_ |->
                            IF k = p.buffer_count_ THEN current ELSE @[k]],
                     !.buffer_count_ = @ + 1]),
              status |-> "kTfLiteOk"]

\* .cc:225-237 on the planner p
AddOfflineBufferTo(p, args, offline_offset) ==
    LET current == p.buffer_count_
        r == AddBufferTo(p, args)
    IN  IF r.status # "kTfLiteOk" THEN r
        ELSE [planner |->
                [r.planner EXCEPT
                   !.requirements_[current].offline_offset = offline_offset],
              status |-> "kTfLiteOk"]

\* .cc:129-134 points the mask arrays of requirements_[0..operator_size-1]
\* into the scratch region and of no other record; .cc:212-219 copy the
\* masks of record buffer_count_ through whatever its two pointers hold.
\* Past operator_size_ records the copy either lands in memory that keeps
\* it or is a write outside the planner's arrays.
MaskWrite(p, status) ==
    IF status = "kTfLiteOk" /\ p.buffer_count_ >= p.operator_size_
    THEN {FALSE, TRUE} ELSE {FALSE}

AddBuffer(args) ==
    /\ Callable
    /\ LET r == AddBufferTo(Self, args)
       IN  /\ Becomes(r.planner)
           /\ last' = Returned("AddBuffer", 0, r.status, 0, FALSE, -1)
           /\ wild_write' \in MaskWrite(Self, r.status)
    /\ UNCHANGED <<conv_vars, sort_vars>>

AddBufferOffline(args, offline_offset) ==
    /\ Callable
    /\ LET r == AddOfflineBufferTo(Self, args, offline_offset)
       IN  /\ Becomes(r.planner)
           /\ last' = Returned("AddBufferOffline", 0, r.status, 0, FALSE, -1)
           /\ wild_write' \in MaskWrite(Self, r.status)
    /\ UNCHANGED <<conv_vars, sort_vars>>

\* .cc:552-563
GetOffsetForBuffer(buffer_index) ==
    /\ Callable
    /\ \E q \in {CalculateOffsetsIfNeeded(Self)} :
           /\ Becomes(q)
           /\ last' = Asked(
                IF q.hung THEN NeverReturns("GetOffsetForBuffer", buffer_index)
                ELSE IF buffer_index < 0 \/ buffer_index >= q.buffer_count_
                THEN Returned("GetOffsetForBuffer", buffer_index,
                              "kTfLiteError", 0, FALSE, -1)
                ELSE Returned("GetOffsetForBuffer", buffer_index, "kTfLiteOk",
                              0, FALSE, q.buffer_offsets_[buffer_index]))
    /\ UNCHANGED <<wild_write, conv_vars, sort_vars>>

\* .cc:467-487
GetMaximumMemorySize ==
    /\ Callable
    /\ \E q \in {CalculateOffsetsIfNeeded(Self)} :
       \E m \in {IF q.hung THEN [value |-> 0, diverges |-> TRUE]
                 ELSE MaximumMemorySize(q)} :
           /\ Becomes([q EXCEPT !.hung = m.diverges])
           /\ last' = Asked(
                IF m.diverges THEN NeverReturns("GetMaximumMemorySize", 0)
                ELSE Returned("GetMaximumMemorySize", 0, "void",
                              m.value, FALSE, -1))
    /\ UNCHANGED <<wild_write, conv_vars, sort_vars>>

\* .cc:550
GetBufferCount ==
    /\ Callable
    /\ last' = Returned("GetBufferCount", 0, "void", buffer_count_, FALSE, -1)
    /\ UNCHANGED <<operator_size_, max_buffer_count_, buffer_count_,
                   need_to_calculate_offsets_, requirements_, operator_info_,
                   buffer_created_sorted_, buffer_last_used_sorted_,
                   buffer_ids_sorted_, buffers_sorted_by_offset_,
                   next_free_entry_, first_entry_index_, buffer_offsets_,
                   hung, wild_write, conv_vars, sort_vars>>

\* .cc:565-601
DoAnyBuffersOverlap ==
    /\ Callable
    /\ \E q \in {CalculateOffsetsIfNeeded(Self)} :
           /\ Becomes(q)
           /\ last' = Asked(
                IF q.hung THEN NeverReturns("DoAnyBuffersOverlap", 0)
                ELSE Returned("DoAnyBuffersOverlap", 0, "void", 0,
                              AnyBuffersOverlap(q), -1))
    /\ UNCHANGED <<wild_write, conv_vars, sort_vars>>

\* .cc:489-548: the plan is brought up to date and printed
PrintMemoryPlan ==
    /\ Callable
    /\ \E q \in {CalculateOffsetsIfNeeded(Self)} :
           /\ Becomes(q)
           /\ last' = Asked(
                IF q.hung THEN NeverReturns("PrintMemoryPlan", 0)
                ELSE Returned("PrintMemoryPlan", 0, "void", 0, FALSE, -1))
    /\ UNCHANGED <<wild_write, conv_vars, sort_vars>>

Next ==
    \/ \E operator_id \in -1..operator_size_ : \E op \in OperatorInputs :
          AddOperatorInfo(operator_id, op)
    \/ \E args \in OnlineInputs(operator_size_) : AddBuffer(args)
    \/ \E b \in OfflineInputs(operator_size_) :
          AddBufferOffline(b.args, b.offline_offset)
    \/ \E buffer_index \in -1..MaxBuffers : GetOffsetForBuffer(buffer_index)
    \/ GetMaximumMemorySize
    \/ GetBufferCount
    \/ DoAnyBuffersOverlap
    \/ PrintMemoryPlan

Spec == Init /\ [][Next]_vars

(***************************************************************************)
(* The geometry computation on its own: CalForwardConv2DMemPaddingLen is   *)
(* a free function, applied here to every CONV_2D geometry of the bound.   *)
(***************************************************************************)
\* the output extent of a convolution along one axis
ConvOutputExtent(in, filter, stride, padding) ==
    (in + 2 * padding - filter) \div stride + 1

\* the CONV_2D geometries with extents and channel counts up to MaxDim
ConvGeometries ==
    {ConvParams(ih, iw, ic, fh, fw, ConvOutputExtent(ih, fh, sh, pad),
                ConvOutputExtent(iw, fw, sw, pad), oc, pad, sh, sw) :
       <<ih, iw, ic, fh, fw, oc, pad, sh, sw>> \in
         {g \in (1..MaxDim) \X (1..MaxDim) \X (1..MaxDim) \X (1..MaxDim)
                  \X (1..MaxDim) \X (1..MaxDim) \X (0..(MaxDim - 1))
                  \X (1..MaxDim) \X (1..MaxDim) :
            g[1] + 2 * g[7] >= g[4] /\ g[2] + 2 * g[7] >= g[5]}}

InitConv ==
    /\ \E scratch \in Scratch :
          Constructed(NumOperators, 0, scratch.operator, scratch.entry)
    /\ conv_params \in ConvGeometries
    /\ conv_result = -1
    /\ SortIdle

ComputePaddingLen ==
    /\ conv_result = -1
    /\ conv_result' = CalForwardConv2DMemPaddingLen(conv_params)
    /\ UNCHANGED <<conv_params, planner_vars, sort_vars>>

NextConv == ComputePaddingLen

SpecConv == InitConv /\ [][NextConv]_vars

(***************************************************************************)
(* SortInPlace2Level on its own: a free function, applied here to every    *)
(* triple of arrays of the bound.                                          *)
(***************************************************************************)
\* largest array handed to the sort
MaxSortSize == 3

\* keys are drawn from 0..MaxKey
MaxKey == 2

\* the arrays of n records with ids 0..n-1, as the planner and the tests
\* fill them
SortInputs ==
    UNION {{[val1s |-> v1, val2s |-> v2, ids |-> [k \in 0..(n - 1) |-> k]] :
              v1 \in [0..(n - 1) -> 0..MaxKey],
              v2 \in [0..(n - 1) -> 0..MaxKey]} : n \in 0..MaxSortSize}

InitSort ==
    /\ \E scratch \in Scratch :
          Constructed(NumOperators, 0, scratch.operator, scratch.entry)
    /\ ConvIdle
    /\ sort_input \in SortInputs
    /\ sort_result = NotSorted

\* .cc:73-92 applied to sort_input; called with done = FALSE stands for a
\* call whose do-while never stops swapping
ApplySort ==
    /\ ~sort_result.called
    /\ \E s \in {SortInPlace2Level(sort_input.val1s, sort_input.val2s,
                                   sort_input.ids,
                                   Cardinality(DOMAIN sort_input.ids))} :
          sort_result' = [val1s |-> s.val1s, val2s |-> s.val2s, ids |-> s.ids,
                          done |-> s.done, called |-> TRUE]
    /\ UNCHANGED <<sort_input, planner_vars, conv_vars>>

NextSort == ApplySort

SpecSort == InitSort /\ [][NextSort]_vars

(***************************************************************************)
(* The planner fed buffers of size zero among others: size is any          *)
(* non-negative int (.cc:197-199).                                         *)
(***************************************************************************)
\* arguments of the online AddBuffer overload, sizes 0 and 2
SizedOnlineInputs(n) ==
    {BufferArgs(size, 0, 1, NoOperator(n), NoOperator(n)) : size \in {0, 2}}

\* arguments of the pinned AddBuffer overload, sizes 0 and 4 at offsets 0
\* and 1
SizedOfflineInputs(n) ==
    {[args |-> BufferArgs(size, 0, 1, NoOperator(n), NoOperator(n)),
      offline_offset |-> offline_offset] :
        size \in {0, 4}, offline_offset \in {0, 1}}

NextSizes ==
    \/ \E args \in SizedOnlineInputs(operator_size_) : AddBuffer(args)
    \/ \E b \in SizedOfflineInputs(operator_size_) :
          AddBufferOffline(b.args, b.offline_offset)
    \/ \E buffer_index \in 0..(MaxBuffers - 1) :
          GetOffsetForBuffer(buffer_index)
    \/ DoAnyBuffersOverlap

SpecSizes == Init /\ [][NextSizes]_vars

(***************************************************************************)
(* The planner driven as TestTopologicalBasicsConv drives it: one CONV_2D  *)
(* operator, its input and its output (test.cc:165-214).  The buffers are  *)
(* added in the order of the test; the operator may be registered and the  *)
(* queries made at any point.                                              *)
(***************************************************************************)
\* test.cc:169-186
BasicsConvOperator ==
    [op_type |-> "CONV_2D",
     params |-> ConvParams(3, 3, 3, 3, 3, 3, 3, 5, 1, 1, 1)]

\* test.cc:191-198
BasicsConvBuffers ==
    <<BufferArgs(3 * 3 * 3, 0, 1, OnlyOperator(1, 0), NoOperator(1)),
      BufferArgs(3 * 3 * 5, 1, 2, NoOperator(1), OnlyOperator(1, 0))>>

InitBasicsConv ==
    /\ \E capacity \in 2..MaxBuffers : \E scratch \in Scratch :
          Constructed(1, capacity, scratch.operator, scratch.entry)
    /\ ConvIdle
    /\ SortIdle

NextBasicsConv ==
    \/ AddOperatorInfo(0, BasicsConvOperator)
    \/ /\ buffer_count_ < Len(BasicsConvBuffers)
       /\ AddBuffer(BasicsConvBuffers[buffer_count_ + 1])
    \/ \E buffer_index \in 0..(Len(BasicsConvBuffers) - 1) :
          GetOffsetForBuffer(buffer_index)
    \/ GetMaximumMemorySize
    \/ DoAnyBuffersOverlap

SpecBasicsConv == InitBasicsConv /\ [][NextBasicsConv]_vars

(***************************************************************************)
(* The planner driven as TestTopologicalMedium drives it: two CONV_2D      *)
(* operators, an ADD and five buffers (test.cc:217-325).                   *)
(***************************************************************************)
\* a mask of n operators with the bits of the set S
OperatorsIn(n, S) == [j \in 0..(n - 1) |-> j \in S]

\* test.cc:224-263
MediumOperators ==
    (0 :> [op_type |-> "CONV_2D",
           params |-> ConvParams(3, 3, 3, 3, 3, 3, 3, 5, 1, 1, 1)]
     @@ 1 :> [op_type |-> "CONV_2D",
              params |-> ConvParams(3, 3, 5, 3, 3, 3, 3, 3, 1, 1, 1)]
     @@ 2 :> [op_type |-> "ADD", params |-> ConvWide])

\* test.cc:265-294
MediumBuffers ==
    <<BufferArgs(3 * 3 * 3, 0, 1, OperatorsIn(3, {0}), OperatorsIn(3, {})),
      BufferArgs(3 * 3 * 5, 1, 2, OperatorsIn(3, {1}), OperatorsIn(3, {0})),
      BufferArgs(3 * 3 * 3, 2, 3, OperatorsIn(3, {2}), OperatorsIn(3, {1})),
      BufferArgs(3 * 3 * 3, 0, 3, OperatorsIn(3, {2}), OperatorsIn(3, {})),
      BufferArgs(3 * 3 * 3, 3, 4, OperatorsIn(3, {}), OperatorsIn(3, {2}))>>

InitMedium ==
    /\ \E scratch \in Scratch :
          Constructed(3, Len(MediumBuffers), scratch.operator, scratch.entry)
    /\ ConvIdle
    /\ SortIdle

NextMedium ==
    \/ \E operator_id \in DOMAIN MediumOperators :
          AddOperatorInfo(operator_id, MediumOperators[operator_id])
    \/ /\ buffer_count_ < Len(MediumBuffers)
       /\ AddBuffer(MediumBuffers[buffer_count_ + 1])
    \/ \E buffer_index \in 0..(Len(MediumBuffers) - 1) :
          GetOffsetForBuffer(buffer_index)
    \/ GetMaximumMemorySize
    \/ DoAnyBuffersOverlap

SpecMedium == InitMedium /\ [][NextMedium]_vars

(***************************************************************************)
(* The planner driven with two pinned buffers, at offsets 0 and 64, and    *)
(* one online buffer of size 32 that is live while both are live           *)
(* (.cc:225-237, 197-223).                                                 *)
(***************************************************************************)
\* sizes of the pinned block at offset 0: it ends below, half way to and at
\* the start of the block at offset 64
FirstPinnedSizes == {16, 32, 64}

PinnedFirst(size) == [args |-> BufferArgs(size, 0, 2, OperatorsIn(3, {}), OperatorsIn(3, {})), offline_offset |-> 0]

PinnedSecond == [args |-> BufferArgs(32, 0, 2, OperatorsIn(3, {}), OperatorsIn(3, {})), offline_offset |-> 64]

OnlineBetween == BufferArgs(32, 0, 2, OperatorsIn(3, {}), OperatorsIn(3, {}))

\* the buffers added so far whose offline_offset is the given one
AddedAt(offline_offset) == {i \in 0..(buffer_count_ - 1) : requirements_[i].offline_offset = offline_offset}

InitPinned ==
    /\ \E scratch \in Scratch : Constructed(3, 3, scratch.operator, scratch.entry)
    /\ ConvIdle
    /\ SortIdle

NextPinned ==
    \/ /\ AddedAt(0) = {}
       /\ \E size \in FirstPinnedSizes :
             AddBufferOffline(PinnedFirst(size).args, PinnedFirst(size).offline_offset)
    \/ /\ AddedAt(64) = {}
       /\ AddBufferOffline(PinnedSecond.args, PinnedSecond.offline_offset)
    \/ /\ AddedAt(kOnlinePlannedBuffer) = {}
       /\ AddBuffer(OnlineBetween)
    \/ \E buffer_index \in 0..2 : GetOffsetForBuffer(buffer_index)
    \/ GetMaximumMemorySize
    \/ DoAnyBuffersOverlap

SpecPinned == InitPinned /\ [][NextPinned]_vars

(***************************************************************************)
(* The planner fed online buffers of size zero and buffers whose first and *)
(* last step coincide, among others (.cc:197-223).                         *)
(***************************************************************************)
\* arguments of the online AddBuffer overload: sizes 0, 2 and 4 over the
\* steps [0,0], [0,1] and [1,1]
EdgeOnlineInputs(n) ==
    {BufferArgs(size, steps[1], steps[2], NoOperator(n), NoOperator(n)) :
       size \in {0, 2, 4}, steps \in {<<0, 0>>, <<0, 1>>, <<1, 1>>}}

NextEdge ==
    \/ \E args \in EdgeOnlineInputs(operator_size_) : AddBuffer(args)
    \/ \E buffer_index \in 0..(MaxBuffers - 1) :
          GetOffsetForBuffer(buffer_index)
    \/ GetMaximumMemorySize

SpecEdge == Init /\ [][NextEdge]_vars

(***************************************************************************)
(* CalCurrentOffset on its own (.cc:303-330): a placement run has placed   *)
(* buffer 0, the prior buffer P, and computes the bump of P for buffer 1,  *)
(* the candidate C.                                                        *)
(***************************************************************************)
\* the planner in the middle of a placement run: P of size p_size, live
\* over [0,1], lies at p_offset; C of size c_size is live from c_first on;
\* P is or is not an input, C is or is not an output, of operator 0 = op
MidPlacement(op, reverse, p_offset, p_size, c_size, c_first, p_is_input, c_is_output) ==
    /\ operator_size_ = 1
    /\ max_buffer_count_ = 2
    /\ buffer_count_ = 2
    /\ need_to_calculate_offsets_ = FALSE
    /\ requirements_ =
         (0 :> (BufferArgs(p_size, 0, 1, [j \in {0} |-> p_is_input], NoOperator(1))
                  @@ [offline_offset |-> kOnlinePlannedBuffer])
          @@ 1 :> (BufferArgs(c_size, c_first, 2, NoOperator(1), [j \in {0} |-> c_is_output])
                     @@ [offline_offset |-> kOnlinePlannedBuffer]))
    /\ operator_info_ = (0 :> [op_type |-> op.op_type, params |-> op.params, reverse |-> reverse])
    /\ buffer_created_sorted_ = (0 :> 0 @@ 1 :> c_first)
    /\ buffer_last_used_sorted_ = (0 :> 1 @@ 1 :> 2)
    /\ buffer_ids_sorted_ = (0 :> 0 @@ 1 :> 1)
    /\ buffers_sorted_by_offset_ = (0 :> ListEntry(p_offset, 0, -1) @@ 1 :> ListEntry(0, 0, -1))
    /\ next_free_entry_ = 1
    /\ first_entry_index_ = 0
    /\ buffer_offsets_ = (0 :> p_offset @@ 1 :> -1)
    /\ hung = FALSE
    /\ wild_write = FALSE
    /\ last = NoCall

InitBump ==
    /\ \E op \in OperatorInputs : \E reverse \in BOOLEAN :
       \E p_offset \in {0, 3} : \E p_size \in {2, 4} : \E c_size \in {2, 4, 6} :
       \E c_first \in {1, 2} : \E p_is_input \in BOOLEAN : \E c_is_output \in BOOLEAN :
          MidPlacement(op, reverse, p_offset, p_size, c_size, c_first, p_is_input, c_is_output)
    /\ ConvIdle
    /\ SortIdle

\* .cc:395-402: the bump of the prior entry for the wanted buffer
ApplyCalCurrentOffset ==
    /\ last = NoCall
    /\ \E r \in {CalCurrentOffset(operator_info_, operator_size_,
                                  buffers_sorted_by_offset_[0],
                                  requirements_[0], requirements_[1])} :
          /\ operator_info_' = r.ops
          /\ last' = Returned("CalCurrentOffset", 0, "void", r.offset, FALSE, -1)
    /\ UNCHANGED <<operator_size_, max_buffer_count_, buffer_count_,
                   need_to_calculate_offsets_, requirements_,
                   buffer_created_sorted_, buffer_last_used_sorted_,
                   buffer_ids_sorted_, buffers_sorted_by_offset_,
                   next_free_entry_, first_entry_index_, buffer_offsets_,
                   hung, wild_write, conv_vars, sort_vars>>

NextBump == ApplyCalCurrentOffset

SpecBump == InitBump /\ [][NextBump]_vars

(***************************************************************************)
(* The constructor on its own (.cc:116-154): how it carves the scratch     *)
(* region, as byte ranges [start, end) counted from scratch_buffer.        *)
(***************************************************************************)
\* sizes of an LP64 build; OpParams is declared outside these sources, the
\* planner and its tests name 17 int fields of it
SizeofInt == 4
SizeofBool == 1
SizeofPointer == 8
SizeofListEntry == 3 * SizeofInt
SizeofBufferRequirements == 4 * SizeofInt + 2 * SizeofPointer
SizeofOperatorInfo == SizeofInt + 17 * SizeofInt + SizeofInt

\* .h:106-116
per_buffer_size ==
    SizeofBufferRequirements + SizeofInt + SizeofInt + SizeofInt
      + SizeofListEntry + SizeofInt

\* .cc:120-121, with stale_operator_size the value operator_size_ holds
\* when it is read, one line before it is assigned
CarvedBufferCount(scratch_buffer_size, operator_size, stale_operator_size) ==
    (scratch_buffer_size - SizeofOperatorInfo * operator_size)
      \div (per_buffer_size + SizeofInt * 2 * stale_operator_size)

Range(name, index, start, length) ==
    [name |-> name, index |-> index, start |-> start, end |-> start + length]

\* .cc:123-153: the ranges the constructor hands out, in the order next_free
\* passes them; the mask ranges are those of the loop of .cc:129-134, which
\* runs over operator_size records
CarvedRanges(max_buffer_count, operator_size) ==
    LET masks == SizeofBool * operator_size
        at_masks == SizeofBufferRequirements * max_buffer_count
        at_created == at_masks + 2 * masks * operator_size
        at_last_used == at_created + SizeofInt * max_buffer_count
        at_ids == at_last_used + SizeofInt * max_buffer_count
        at_list == at_ids + SizeofInt * max_buffer_count
        at_operators == at_list + SizeofListEntry * max_buffer_count
        at_offsets == at_operators + SizeofOperatorInfo * operator_size
    IN  {Range("requirements_", 0, 0, SizeofBufferRequirements * max_buffer_count),
         Range("buffer_created_sorted_", 0, at_created, SizeofInt * max_buffer_count),
         Range("buffer_last_used_sorted_", 0, at_last_used, SizeofInt * max_buffer_count),
         Range("buffer_ids_sorted_", 0, at_ids, SizeofInt * max_buffer_count),
         Range("buffers_sorted_by_offset_", 0, at_list, SizeofListEntry * max_buffer_count),
         Range("operator_info_", 0, at_operators, SizeofOperatorInfo * operator_size),
         Range("buffer_offsets_", 0, at_offsets, SizeofInt * max_buffer_count)}
        \cup {Range("input_of_operators", i, at_masks + 2 * masks * i, masks) :
                i \in 0..(operator_size - 1)}
        \cup {Range("output_of_operators", i, at_masks + 2 * masks * i + masks, masks) :
                i \in 0..(operator_size - 1)}

\* scratch lengths that hold the operator table of up to three operators
ScratchSizes == {32 * n : n \in 8..24}

\* the constructor has been entered with its member initialisers run
\* (.cc:118); operator_size_ holds what the object's memory held
InitCarve ==
    /\ \E scratch_buffer_size \in ScratchSizes : \E operator_size \in 1..3 :
          last = Returned("TopologicalMemoryPlanner", scratch_buffer_size,
                          "entered", operator_size, FALSE, -1)
    /\ operator_size_ \in 0..3
    /\ max_buffer_count_ = 0
    /\ buffer_count_ = 0
    /\ need_to_calculate_offsets_ = TRUE
    /\ requirements_ = EmptyArray
    /\ operator_info_ = EmptyArray
    /\ buffer_created_sorted_ = EmptyArray
    /\ buffer_last_used_sorted_ = EmptyArray
    /\ buffer_ids_sorted_ = EmptyArray
    /\ buffers_sorted_by_offset_ = EmptyArray
    /\ next_free_entry_ = 0
    /\ first_entry_index_ = 0
    /\ buffer_offsets_ = EmptyArray
    /\ hung = FALSE
    /\ wild_write = FALSE
    /\ ConvIdle
    /\ SortIdle

\* .cc:119-153.  The loop of .cc:129-134 stores mask pointers in
\* requirements_[0..operator_size-1], past the end of requirements_ when
\* operator_size exceeds max_buffer_count_.
Construct ==
    /\ last.call = "TopologicalMemoryPlanner" /\ last.status = "entered"
    /\ \E capacity \in {CarvedBufferCount(last.arg, last.value, operator_size_)} :
       \E scratch \in Scratch :
          /\ max_buffer_count_' = capacity
          /\ operator_size_' = last.value
          /\ operator_info_' = [k \in 0..(last.value - 1) |-> scratch.operator]
          /\ buffers_sorted_by_offset_' = [k \in 0..(capacity - 1) |-> scratch.entry]
          /\ wild_write' = (last.value > capacity)
    /\ last' = [last EXCEPT !.status = "void"]
    /\ UNCHANGED <<buffer_count_, need_to_calculate_offsets_, requirements_,
                   buffer_created_sorted_, buffer_last_used_sorted_,
                   buffer_ids_sorted_, next_free_entry_, first_entry_index_,
                   buffer_offsets_, hung, conv_vars, sort_vars>>

NextCarve == Construct

SpecCarve == InitCarve /\ [][NextCarve]_vars

(***************************************************************************)
(* Properties.                                                             *)
(***************************************************************************)
\* the last call was a query and it returned
AfterQuery == last.call \in QueryCalls /\ ~hung

Buffers == 0..(buffer_count_ - 1)

TimesIntersect(i, j) ==
    /\ requirements_[i].first_time_used <= requirements_[j].last_time_used
    /\ requirements_[j].first_time_used <= requirements_[i].last_time_used

BytesDisjoint(i, j) ==
    \/ buffer_offsets_[i] + requirements_[i].size <= buffer_offsets_[j]
    \/ buffer_offsets_[j] + requirements_[j].size <= buffer_offsets_[i]

\* the OverlapPolicy admits input P and output C
PolicyAdmits(P, C) ==
    \E k \in 0..(operator_size_ - 1) :
        /\ requirements_[P].input_of_operators[k]
        /\ requirements_[C].output_of_operators[k]
        /\ requirements_[P].last_time_used = requirements_[C].first_time_used
        /\ operator_info_[k].op_type \in {"CONV_2D", "ADD"}

IsPinned(i) == requirements_[i].offline_offset # kOnlinePlannedBuffer

\* max over the registered buffers of offset + size, 0 when there is none
RECURSIVE HighWaterUpTo(_)
HighWaterUpTo(n) ==
    IF n = 0 THEN 0
    ELSE Max(HighWaterUpTo(n - 1),
             buffer_offsets_[n - 1] + requirements_[n - 1].size)

HighWater == HighWaterUpTo(buffer_count_)

\* I1 for the pairs that hold at least one online buffer
OnlineDisjointUnlessAdmitted ==
    \A i \in Buffers : \A j \in Buffers :
       (i # j /\ TimesIntersect(i, j) /\ ~(IsPinned(i) /\ IsPinned(j)))
         => (BytesDisjoint(i, j) \/ PolicyAdmits(i, j) \/ PolicyAdmits(j, i))

\* C1: after any query, every two distinct registered buffers whose live
\* intervals intersect occupy disjoint byte ranges, or the OverlapPolicy
\* admits the pair: one is an input and the other an output of one
\* operator k, P.last_step = C.first_step, and k is CONV_2D or ADD.  It is
\* asked only of the pairs that hold an online buffer: where two pinned
\* buffers lie is the client's choice.
DisjointUnlessAdmitted == AfterQuery => OnlineDisjointUnlessAdmitted

\* C2: after any query, every buffer registered through the pinned
\* overload has the offset it was registered with, and GetOffsetForBuffer
\* returns that offset, whatever else is registered.
PinningHonoured ==
    /\ AfterQuery =>
         \A i \in Buffers :
            IsPinned(i) => buffer_offsets_[i] = requirements_[i].offline_offset
    /\ (last.call = "GetOffsetForBuffer" /\ last.status = "kTfLiteOk"
          /\ IsPinned(last.arg))
         => last.offset = requirements_[last.arg].offline_offset

\* a pinned buffer was queried in a planner that holds another buffer whose
\* bytes and live interval it shares
PinnedAmongOthers ==
    /\ last.call = "GetOffsetForBuffer" /\ last.status = "kTfLiteOk"
    /\ IsPinned(last.arg)
    /\ last.offset = requirements_[last.arg].offline_offset
    /\ \E j \in Buffers :
          j # last.arg /\ TimesIntersect(last.arg, j)
            /\ ~BytesDisjoint(last.arg, j)

ConvReads(p, oh, ow, ih, iw) ==
    /\ ih >= oh * p.stride_height - p.padding
    /\ ih <= oh * p.stride_height - p.padding + p.filter_height - 1
    /\ iw >= ow * p.stride_width - p.padding
    /\ iw <= ow * p.stride_width - p.padding + p.filter_width - 1

\* raster indices of the output pixels that read input pixel (ih, iw)
ConvReaders(p, ih, iw) ==
    {oh * p.output_width + ow :
       <<oh, ow>> \in {r \in (0..(p.output_height - 1))
                              \X (0..(p.output_width - 1)) :
                         ConvReads(p, r[1], r[2], ih, iw)}}

SetMax(S) == CHOOSE x \in S : \A y \in S : y <= x

\* index, in raster order, of the last output element that reads an element
\* of input pixel (ih, iw): the last channel of the last reading pixel
LastConsumer(p, ih, iw) ==
    (SetMax(ConvReaders(p, ih, iw)) + 1) * p.output_channel - 1

\* With the output laid out l bytes after the input base and produced in
\* raster order, output element j is stored at byte l + j of the input:
\* no input element with a consumer is stored over before its last
\* consumer has been computed.
ConvLayoutSafe(p, l) ==
    \A ih \in 0..(p.input_height - 1) : \A iw \in 0..(p.input_width - 1) :
    \A ic \in 0..(p.input_channel - 1) :
       LET address == (ih * p.input_width + iw) * p.input_channel + ic
           j == address - l
       IN  (ConvReaders(p, ih, iw) # {} /\ j >= 0
              /\ j < p.output_height * p.output_width * p.output_channel)
             => j >= LastConsumer(p, ih, iw)

\* C4: for every CONV_2D geometry, laying the output out l bytes after the
\* input base, l the value of CalForwardConv2DMemPaddingLen, overwrites no
\* input element before its last consumer is computed, and no smaller
\* non-negative l has this property.
PaddingLenSafeAndMinimal ==
    conv_result # -1 =>
      /\ ConvLayoutSafe(conv_params, conv_result)
      /\ \A l \in 0..(conv_result - 1) : ~ConvLayoutSafe(conv_params, l)

\* A second planner instance given the registrations this one was given:
\* constructed over the scratch content `scratch`, it holds the same
\* buffers and the same operator kinds and geometries, and has answered
\* no query yet.
OtherInstance(scratch) ==
    [operator_size_ |-> operator_size_,
     max_buffer_count_ |-> max_buffer_count_,
     buffer_count_ |-> buffer_count_,
     need_to_calculate_offsets_ |-> TRUE,
     requirements_ |-> requirements_,
     operator_info_ |->
        [k \in DOMAIN operator_info_ |->
           [operator_info_[k] EXCEPT !.reverse = scratch.operator.reverse]],
     buffer_created_sorted_ |-> EmptyArray,
     buffer_last_used_sorted_ |-> EmptyArray,
     buffer_ids_sorted_ |-> EmptyArray,
     buffers_sorted_by_offset_ |->
        [k \in DOMAIN buffers_sorted_by_offset_ |-> scratch.entry],
     next_free_entry_ |-> 0,
     first_entry_index_ |-> 0,
     buffer_offsets_ |-> EmptyArray,
     hung |-> FALSE]

\* the reverse flags of the operator table ops
ReverseFlags(ops) == [k \in DOMAIN ops |-> ops[k].reverse]

\* C5: two planner instances fed the same AddOperatorInfo/AddBuffer calls
\* return the same offset for every buffer, the same maximum memory size,
\* the same DoAnyBuffersOverlap result and the same reverse flags.
InstancesAgree ==
    (AfterQuery /\ buffer_count_ > 0) =>
      \A scratch \in Scratch :
         LET other == CalculateOffsetsIfNeeded(OtherInstance(scratch))
         IN  ~other.hung =>
               /\ other.buffer_offsets_ = buffer_offsets_
               /\ AnyBuffersOverlap(other) = AnyBuffersOverlap(Self)
               /\ ReverseFlags(other.operator_info_)
                    = ReverseFlags(operator_info_)
               /\ (~MaximumMemorySize(other).diverges
                     /\ ~MaximumMemorySize(Self).diverges)
                    => MaximumMemorySize(other).value
                         = MaximumMemorySize(Self).value

\* what placement writes: the sort arrays, the offset-sorted list, the
\* per-buffer offsets and the operator table with its reverse flags
PlanState ==
    <<buffer_created_sorted_, buffer_last_used_sorted_, buffer_ids_sorted_,
      buffers_sorted_by_offset_, first_entry_index_, next_free_entry_,
      buffer_offsets_, operator_info_, need_to_calculate_offsets_>>

\* what a call returned to its caller
Answer(r) == <<r.status, r.value, r.flag, r.offset>>

\* C6: a query that follows a query, with no AddBuffer or AddOperatorInfo
\* in between, writes neither the sort arrays nor the offset-sorted list
\* nor the per-buffer offsets nor the reverse flags, and a repeated query
\* returns what it returned the first time.
SecondQueryWritesNothing ==
    [][(last'.call \in QueryCalls /\ last'.after = "query")
         => /\ UNCHANGED PlanState
            /\ UNCHANGED <<buffer_count_, requirements_>>
            /\ (last'.call = last.call /\ last'.arg = last.arg)
                 => Answer(last') = Answer(last)]_vars

\* a query answered right after another query, over a plan of two buffers
QueryAfterQuery ==
    /\ last.call \in QueryCalls /\ last.status # "never"
    /\ last.after = "query"
    /\ buffer_count_ >= 2 /\ ~need_to_calculate_offsets_

\* I2
AllPinsHonoured ==
    \A i \in Buffers :
       IsPinned(i) => buffer_offsets_[i] = requirements_[i].offline_offset

\* I4, where the walk of the list ends
ListWalkIsHighWater ==
    ~MaximumMemorySize(Self).diverges
      => MaximumMemorySize(Self).value = HighWater

\* every registered buffer has an offset
AllAssigned ==
    /\ DOMAIN buffer_offsets_ = Buffers
    /\ \A i \in Buffers : buffer_offsets_[i] # -1

\* the step is a query made right after a successful AddBuffer that
\* followed an earlier plan
QueryAfterAddToPlan ==
    /\ last.call \in AddCalls /\ last.status = "kTfLiteOk"
    /\ last'.call \in QueryCalls
    /\ last'.after = "add to a plan"

\* C7: a successful AddBuffer marks the plan stale, and the query that
\* follows it re-runs placement: the query returns, every buffer, the new
\* one included, has an offset, and I1, I2 and I4 hold for the enlarged
\* set.  I1 is asked only of the pairs that hold an online buffer: where
\* two pinned buffers lie is the client's choice.
AddBufferReplans ==
    [][/\ (last'.call \in AddCalls /\ last'.status = "kTfLiteOk")
            => need_to_calculate_offsets_'
       /\ QueryAfterAddToPlan
            => /\ last'.status # "never"
               /\ ~need_to_calculate_offsets_'
               /\ AllAssigned'
               /\ OnlineDisjointUnlessAdmitted'
               /\ AllPinsHonoured'
               /\ ListWalkIsHighWater']_vars

\* C8: after a plan has been computed, a successful AddOperatorInfo makes
\* the next query re-run placement: the offsets after that query are
\* those of a fresh planner given the same final registrations.
OperatorInfoReplans ==
    [][(/\ last.call = "AddOperatorInfo" /\ last.status = "kTfLiteOk"
        /\ ~wild_write
        /\ ~need_to_calculate_offsets_ /\ buffer_count_ > 0
        /\ last'.call \in QueryCalls /\ last'.status # "never")
         => \E scratch \in Scratch :
               LET fresh == CalculateOffsetsIfNeeded(OtherInstance(scratch))
               IN  ~fresh.hung /\ fresh.buffer_offsets_ = buffer_offsets_']_vars

IndicesChecked ==
    [][/\ (last'.call = "AddOperatorInfo"
             /\ last'.arg \notin 0..(operator_size_ - 1))
            => /\ last'.status = "kTfLiteError"
               /\ operator_info_' = operator_info_
               /\ ~wild_write'
       /\ (last'.call = "GetOffsetForBuffer" /\ last'.status # "never"
             /\ last'.arg \notin 0..(buffer_count_ - 1))
            => /\ last'.status = "kTfLiteError"
               /\ last'.offset = -1]_vars

\* SortInPlace2Level was called on its own and returned
Sorted == sort_result.called /\ sort_result.done

SortSlots == DOMAIN sort_result.ids

\* C11: SortInPlace2Level returns and leaves the arrays ordered: for every
\* adjacent pair i-1, i, val1s[i-1] < val1s[i], or val1s[i-1] = val1s[i]
\* and val2s[i-1] >= val2s[i], for every input of every size.
SortOrdersTwoLevels ==
    sort_result.called =>
      /\ sort_result.done
      /\ \A i \in SortSlots \ {0} :
            \/ sort_result.val1s[i - 1] < sort_result.val1s[i]
            \/ /\ sort_result.val1s[i - 1] = sort_result.val1s[i]
               /\ sort_result.val2s[i - 1] >= sort_result.val2s[i]

\* C12: SortInPlace2Level returns a stable permutation of the triples: the
\* ids are rearranged, each id keeps its own val1 and val2, and two records
\* with equal val1 and equal val2 keep their input order, so an input whose
\* keys are all equal comes back unchanged.
SortIsStablePermutation ==
    sort_result.called =>
      /\ sort_result.done
      /\ DOMAIN sort_result.ids = DOMAIN sort_input.ids
      /\ {sort_result.ids[i] : i \in SortSlots} = SortSlots
      /\ \A i \in SortSlots :
            /\ sort_result.val1s[i] = sort_input.val1s[sort_result.ids[i]]
            /\ sort_result.val2s[i] = sort_input.val2s[sort_result.ids[i]]
      /\ \A i \in SortSlots : \A j \in SortSlots :
            (/\ i < j
             /\ sort_result.val1s[i] = sort_result.val1s[j]
             /\ sort_result.val2s[i] = sort_result.val2s[j])
              => sort_result.ids[i] < sort_result.ids[j]
      /\ (\A i \in SortSlots : \A j \in SortSlots :
             /\ sort_input.val1s[i] = sort_input.val1s[j]
             /\ sort_input.val2s[i] = sort_input.val2s[j])
            => /\ sort_result.val1s = sort_input.val1s
               /\ sort_result.val2s = sort_input.val2s
               /\ sort_result.ids = sort_input.ids

\* the sort moved records and two records of equal keys came through it
SortedWithEqualKeys ==
    /\ Sorted
    /\ sort_result.ids # sort_input.ids
    /\ \E i \in SortSlots : \E j \in SortSlots :
          /\ i < j
          /\ sort_result.val1s[i] = sort_result.val1s[j]
          /\ sort_result.val2s[i] = sort_result.val2s[j]

\* a placement run has been made and the query that made it returned
Placed == AfterQuery /\ ~need_to_calculate_offsets_ /\ buffer_count_ > 0

\* the buffer placed k-th in the last placement run: the run writes its
\* k-th list entry for it (.cc:428-431)
PlacedAt(k) == buffers_sorted_by_offset_[k].requirements_index

\* C13: in a placement run every pinned buffer is placed before any online
\* buffer, pinned buffers are placed in the order they were added, and
\* online buffers are placed in ascending first_time_used order, those of
\* equal first_time_used in descending last_time_used order.
PlacementOrder ==
    Placed =>
      /\ {PlacedAt(k) : k \in Buffers} = Buffers
      /\ \A k \in Buffers : \A l \in Buffers :
            k < l =>
              LET a == PlacedAt(k)
                  b == PlacedAt(l)
              IN  /\ ~(IsPinned(b) /\ ~IsPinned(a))
                  /\ (IsPinned(a) /\ IsPinned(b)) => a < b
                  /\ (~IsPinned(a) /\ ~IsPinned(b)) =>
                        \/ requirements_[a].first_time_used
                             < requirements_[b].first_time_used
                        \/ /\ requirements_[a].first_time_used
                                = requirements_[b].first_time_used
                           /\ requirements_[a].last_time_used
                                >= requirements_[b].last_time_used

\* C14: two online buffers registered with the same first_time_used and
\* the same last_time_used are placed in the order AddBuffer added them.
EqualStepsKeepAddOrder ==
    Placed =>
      \A k \in Buffers : \A l \in Buffers :
         LET a == PlacedAt(k)
             b == PlacedAt(l)
         IN  (/\ k < l
              /\ a \in Buffers /\ b \in Buffers
              /\ ~IsPinned(a) /\ ~IsPinned(b)
              /\ requirements_[a].first_time_used
                   = requirements_[b].first_time_used
              /\ requirements_[a].last_time_used
                   = requirements_[b].last_time_used)
               => a < b

\* the byte ranges [offset, offset + size) of buffers i and j share a byte
SharesByte(i, j) ==
    Max(buffer_offsets_[i], buffer_offsets_[j])
      < Min(buffer_offsets_[i] + requirements_[i].size,
            buffer_offsets_[j] + requirements_[j].size)

\* C15: DoAnyBuffersOverlap returns true if and only if two distinct
\* registered buffers have intersecting live intervals and byte ranges
\* [offset, offset + size) that share a byte, whatever the OverlapPolicy
\* says of the pair; a buffer of size zero, whose range is empty, never
\* makes it return true.
OverlapCheckIsByteIntersection ==
    (last.call = "DoAnyBuffersOverlap" /\ last.status # "never") =>
      (last.flag <=>
         \E i \in Buffers : \E j \in Buffers :
            i # j /\ TimesIntersect(i, j) /\ SharesByte(i, j))

\* every registered buffer is online
AllOnline == \A i \in Buffers : ~IsPinned(i)

\* no operator slot holds a kind that admits an overlap
NoAdmittingKind ==
    \A k \in 0..(operator_size_ - 1) :
       ~IsOverlapOrInplaceOperator(operator_info_[k].op_type)

\* C16: when every registered buffer is online and no operator has kind
\* CONV_2D or ADD, DoAnyBuffersOverlap returns false: no two buffers live
\* at the same step share a byte.
NoOverlapWithoutAdmission ==
    (/\ last.call = "DoAnyBuffersOverlap" /\ last.status # "never"
     /\ buffer_count_ > 0 /\ AllOnline /\ NoAdmittingKind)
      => /\ ~last.flag
         /\ \A i \in Buffers : \A j \in Buffers :
               (i # j /\ TimesIntersect(i, j)) => ~SharesByte(i, j)

\* C17: an online buffer whose live interval intersects the live interval
\* of no buffer placed before it is assigned offset 0.
LoneBufferAtZero ==
    Placed =>
      \A l \in Buffers :
         LET b == PlacedAt(l)
         IN  (/\ ~IsPinned(b)
              /\ \A k \in 0..(l - 1) : ~TimesIntersect(PlacedAt(k), b))
               => buffer_offsets_[b] = 0

\* the step is the first query of a planner on which the operators ops
\* and n buffers have been registered and no plan has been made
FirstPlanOf(ops, n) ==
    /\ buffer_count_ = n
    /\ \A k \in DOMAIN ops :
          /\ operator_info_[k].op_type = ops[k].op_type
          /\ ops[k].op_type = "CONV_2D"
                => operator_info_[k].params = ops[k].params
    /\ DOMAIN buffer_offsets_ = {}
    /\ ~wild_write
    /\ last'.call \in QueryCalls

\* C18: with one CONV_2D operator (input 3x3x3, filter 3x3, output 3x3x5,
\* padding 1, stride 1), its input buffer (size 27, steps [0,1]) and its
\* output buffer (size 45, steps [1,2]), placement assigns offset 0 to the
\* input and 15 to the output, GetMaximumMemorySize is 60 and
\* DoAnyBuffersOverlap is true.
BasicsConvPlan ==
    [][FirstPlanOf([k \in {0} |-> BasicsConvOperator], 2)
         => /\ last'.status # "never"
            /\ buffer_offsets_' = (0 :> 0 @@ 1 :> 15)
            /\ MaximumMemorySize(Self') = [value |-> 60, diverges |-> FALSE]
            /\ AnyBuffersOverlap(Self')]_vars

\* C19: with op 0 = CONV_2D (3x3x3 -> 3x3x5), op 1 = CONV_2D (3x3x5 ->
\* 3x3x3), op 2 = ADD and the buffers b0 (27, [0,1]), b1 (45, [1,2]),
\* b2 (27, [2,3]), b3 (27, [0,3]), b4 (27, [3,4]), placement assigns
\* b0 = 27, b1 = 42, b2 = 27, b3 = 0, b4 = 0, GetMaximumMemorySize is 87
\* and DoAnyBuffersOverlap is true.
MediumPlan ==
    [][FirstPlanOf(MediumOperators, 5)
         => /\ last'.status # "never"
            /\ buffer_offsets_'
                 = (0 :> 27 @@ 1 :> 42 @@ 2 :> 27 @@ 3 :> 0 @@ 4 :> 0)
            /\ MaximumMemorySize(Self') = [value |-> 87, diverges |-> FALSE]
            /\ AnyBuffersOverlap(Self')]_vars

\* C20: with a pinned buffer at offset 0, a pinned buffer of size 32 at
\* offset 64 and one online buffer of size 32 live together with both,
\* the first plan places the online buffer at or above offset 96, the end
\* of the second pinned block, whatever the size of the first.
OnlineAbovePinned ==
    [][(/\ buffer_count_ = 3
        /\ AddedAt(0) # {} /\ AddedAt(64) # {}
        /\ DOMAIN buffer_offsets_ = {}
        /\ ~wild_write
        /\ last'.call \in QueryCalls)
         => /\ last'.status # "never"
            /\ \A i \in AddedAt(kOnlinePlannedBuffer) : buffer_offsets_'[i] >= 64 + 32]_vars

\* the array arr without its slot z
WithoutSlot(arr, z) ==
    [k \in 0..(Cardinality(DOMAIN arr) - 2) |->
       IF k < z THEN arr[k] ELSE arr[k + 1]]

\* this planner had it not been given buffer z; it is this planner itself
\* where no plan has been made yet
InstanceWithout(z) ==
    [Self EXCEPT !.requirements_ = WithoutSlot(requirements_, z),
                 !.buffer_count_ = buffer_count_ - 1]

\* the step is the first query of the planner and it returns
FirstPlan ==
    /\ buffer_count_ > 0
    /\ DOMAIN buffer_offsets_ = {}
    /\ ~wild_write
    /\ last'.call \in QueryCalls /\ last'.status # "never"

\* what the plan gives to the buffers other than z is what the planner
\* `other`, which was not given z, gives to them
SameWithout(z, other) ==
    /\ ~other.hung
    /\ \A i \in Buffers \ {z} :
          buffer_offsets_'[i]
            = other.buffer_offsets_[IF i < z THEN i ELSE i - 1]
    /\ MaximumMemorySize(Self') = MaximumMemorySize(other)

\* C21: an online buffer of size 0 is placed at offset 0 by every
\* placement run, and it excludes nothing: in the first plan every other
\* buffer has the offset, and GetMaximumMemorySize the value, that the same
\* planner gives without the zero-size buffer; a buffer with
\* first_time_used = last_time_used is accepted and placed like any other.
ZeroSizeExcludesNothing ==
    [][/\ Placed' =>
            \A z \in Buffers' :
               (~IsPinned(z)' /\ requirements_'[z].size = 0)
                  => buffer_offsets_'[z] = 0
       /\ FirstPlan =>
            /\ \A z \in Buffers :
                  (~IsPinned(z) /\ requirements_[z].size = 0) =>
                     SameWithout(z, CalculateOffsetsIfNeeded(InstanceWithout(z)))
            /\ \A i \in Buffers : buffer_offsets_'[i] >= 0
       /\ (last'.call = "AddBuffer" /\ buffer_count_ < max_buffer_count_)
            => last'.status = "kTfLiteOk"]_vars

\* the OverlapPolicy admits no pair of registered buffers
NothingAdmitted ==
    \A i \in Buffers : \A j \in Buffers : i # j => ~PolicyAdmits(i, j)

\* the bytes [o, o + size of b) share no byte with any buffer placed before
\* position l whose live interval intersects that of b
FitsAt(b, l, o) ==
    \A k \in 0..(l - 1) :
       TimesIntersect(PlacedAt(k), b) =>
          Max(o, buffer_offsets_[PlacedAt(k)])
            >= Min(o + requirements_[b].size,
                   buffer_offsets_[PlacedAt(k)] + requirements_[PlacedAt(k)].size)

\* every online buffer lies at the lowest offset that fits
FirstFit ==
    \A l \in Buffers :
       LET b == PlacedAt(l)
       IN  (b \in Buffers /\ ~IsPinned(b)) =>
              /\ buffer_offsets_[b] >= 0
              /\ FitsAt(b, l, buffer_offsets_[b])
              /\ \A o \in 0..(buffer_offsets_[b] - 1) : ~FitsAt(b, l, o)

\* C22: when the OverlapPolicy admits no pair of buffers, the plan gives
\* each online buffer C the lowest offset o >= 0 at which [o, o + C.size)
\* shares no byte with any buffer placed before C whose live interval
\* intersects that of C.
FirstFitWithoutAdmission ==
    [][(FirstPlan /\ NothingAdmitted) => FirstFit']_vars

\* CalCurrentOffset was called for the prior buffer 0 and the candidate 1
Bumped == last.call = "CalCurrentOffset"

\* the forward-padding length of operator k
ForwardPadding(k) == CalForwardConv2DMemPaddingLen(operator_info_[k].params)

\* the bump the OverlapPolicy prescribes for prior P and candidate C
PrescribedBump(P, C) ==
    LET baseline == buffer_offsets_[P] + requirements_[P].size
        admitting == {k \in 0..(operator_size_ - 1) :
                        /\ requirements_[P].input_of_operators[k]
                        /\ requirements_[C].output_of_operators[k]
                        /\ requirements_[P].last_time_used
                             = requirements_[C].first_time_used
                        /\ operator_info_[k].op_type \in {"CONV_2D", "ADD"}}
        k == CHOOSE x \in admitting : \A y \in admitting : x <= y
        admitted == buffer_offsets_[P]
                      + (IF operator_info_[k].op_type = "ADD" THEN 0
                         ELSE ForwardPadding(k) + requirements_[P].size
                                - requirements_[C].size)
    IN  IF admitting = {} THEN baseline
        ELSE IF admitted > baseline THEN baseline ELSE admitted

\* C23: the bump of a placed, time-overlapping prior buffer P for the
\* candidate C never exceeds P.offset + P.size: it is P.offset (ADD) or
\* P.offset + l + P.size - C.size (CONV_2D) for an admitted pair, the
\* baseline P.offset + P.size where that value would exceed it, and the
\* baseline for a pair that is not admitted.
BumpWithinBaseline ==
    Bumped =>
      /\ last.value <= buffer_offsets_[0] + requirements_[0].size
      /\ last.value = PrescribedBump(0, 1)

\* operator k admits prior P and candidate C, the pair CalCurrentOffset
\* was called for
AdmittedBy(k, P, C) ==
    /\ requirements_[P].input_of_operators[k]
    /\ requirements_[C].output_of_operators[k]
    /\ requirements_[P].last_time_used = requirements_[C].first_time_used
    /\ operator_info_[k].op_type \in {"CONV_2D", "ADD"}

\* C24: the reverse flag of every operator is false until placement sets
\* it, and once placement has treated the pair (P, C) the flag of operator
\* k is true if and only if k is a CONV_2D operator that admitted the pair
\* and has a forward-padding length greater than 0: it stays false for
\* ADD, for CONV_2D with padding length 0 and for operators that admitted
\* nothing.
ReverseFlagRule ==
    \A k \in 0..(operator_size_ - 1) :
       /\ ~Bumped => ~operator_info_[k].reverse
       /\ Bumped =>
            (operator_info_[k].reverse
               <=> /\ operator_info_[k].op_type = "CONV_2D"
                   /\ AdmittedBy(k, 0, 1)
                   /\ ForwardPadding(k) > 0)

\* the entries of the list of planner q met by following next_entry_index
\* from entry on, as a sequence of entry indices; the walk is cut where it
\* would leave the array or has made `steps` steps
RECURSIVE ListFrom(_, _, _)
ListFrom(q, entry, steps) ==
    IF entry \notin DOMAIN q.buffers_sorted_by_offset_ \/ steps = 0 THEN <<>>
    ELSE <<entry>> \o ListFrom(q, q.buffers_sorted_by_offset_[entry].next_entry_index,
                               steps - 1)

\* in planner q, which has placed the buffers at the first k positions of
\* buffer_ids_sorted_, the walk from first_entry_index_ ends at the -1
\* sentinel after k entries, one for each placed buffer, in ascending
\* offset order, entries of equal offset in the order they were written,
\* each holding the offset of its buffer
ListWellFormed(q, k) ==
    LET walk == ListFrom(q, q.first_entry_index_, k + 1)
        at(n) == q.buffers_sorted_by_offset_[walk[n]]
    IN  /\ Len(walk) = k
        /\ at(Len(walk)).next_entry_index = -1
        /\ {at(n).requirements_index : n \in 1..Len(walk)}
             = {q.buffer_ids_sorted_[i] : i \in 0..(k - 1)}
        /\ \A n \in 1..(Len(walk) - 1) :
              \/ at(n).offset < at(n + 1).offset
              \/ at(n).offset = at(n + 1).offset /\ walk[n] < walk[n + 1]
        /\ \A n \in 1..Len(walk) :
              at(n).offset = q.buffer_offsets_[at(n).requirements_index]

\* the planner after the first k insertions of the placement run that a
\* query on this planner makes
AfterInsertions(k) ==
    PlaceFrom([SortedForPlacement(Self) EXCEPT !.buffer_count_ = k], 0)

\* the step is a query that runs placement
PlacementRuns ==
    /\ need_to_calculate_offsets_ /\ buffer_count_ > 0 /\ ~wild_write
    /\ last'.call \in QueryCalls

\* C25: after each insertion of a placement run, and so after every query
\* on a planner that holds buffers, following next_entry_index from
\* first_entry_index_ reaches the -1 sentinel after visiting each placed
\* buffer exactly once, offsets along the list do not decrease, entries of
\* equal offset are in insertion order, and each entry's offset is the one
\* recorded in buffer_offsets_ for its buffer.
OffsetListInvariant ==
    [][/\ PlacementRuns =>
            \A k \in 1..buffer_count_ :
               \E q \in {AfterInsertions(k)} : ~q.hung => ListWellFormed(q, k)
       /\ Placed' => ListWellFormed(Self', buffer_count_')]_vars

\* the constructor has returned
Carved == last.call = "TopologicalMemoryPlanner" /\ last.status = "void"

\* C26: for every scratch length and operator count, the ranges the
\* constructor hands to the working arrays, the operator table and the
\* masks are pairwise disjoint and lie inside [0, scratch length), and
\* every buffer index below max_buffer_count_ has an input mask and an
\* output mask of its own.
ScratchCarvedSafely ==
    Carved =>
      \E ranges \in {CarvedRanges(max_buffer_count_, operator_size_)} :
         /\ \A a \in ranges : \A b \in ranges :
               a # b => (a.end <= b.start \/ b.end <= a.start)
         /\ \A a \in ranges : 0 <= a.start /\ a.end <= last.arg
         /\ \A i \in 0..(max_buffer_count_ - 1) :
               \E a \in ranges : \E b \in ranges :
                  /\ a.name = "input_of_operators" /\ a.index = i
                  /\ b.name = "output_of_operators" /\ b.index = i
         /\ ~wild_write

\* C27: every call runs to completion: whatever buffers and operators
\* are registered, no query is left inside the swap loop of the sort, the
\* gap scan of a buffer or the walk to an insertion point.
EveryCallReturns == ~hung /\ last.status # "never"

\* C28: the record of a registered buffer is never changed: no query and
\* no later AddBuffer or AddOperatorInfo changes its size, steps,
\* offline_offset or masks (placement writes buffer_offsets_ and the
\* reverse flags only), and AddBuffer copies the caller's masks into
\* storage that belongs to the new record.
RecordsAreKept ==
    [][/\ \A i \in Buffers :
             i \in DOMAIN requirements_' /\ requirements_'[i] = requirements_[i]
       /\ (last'.call \in AddCalls /\ last'.status = "kTfLiteOk")
            => /\ buffer_count_' = buffer_count_ + 1
               /\ ~wild_write']_vars

\* the plan this planner holds is the plan of `fresh`, a planner that was
\* given the same registrations and is queried now for the first time
SamePlanAs(fresh) ==
    /\ ~fresh.hung
    /\ fresh.buffer_offsets_ = buffer_offsets_
    /\ MaximumMemorySize(fresh) = MaximumMemorySize(Self)
    /\ ReverseFlags(fresh.operator_info_) = ReverseFlags(operator_info_)

\* the contents of the scratch region, operator slots and list entries
\* taken independently
AnyScratch ==
    {[operator |-> a.operator, entry |-> b.entry] : a \in Scratch, b \in Scratch}

\* C29: the plan observed after a query depends on the registrations made
\* so far and not on earlier queries: the offsets, the high-water mark and
\* the reverse flags are those of a planner, constructed over some content
\* of the scratch region, that received the same registrations and is
\* queried only now.
HistoryIndependent ==
    (AfterQuery /\ buffer_count_ > 0 /\ ~wild_write) =>
       \E scratch \in AnyScratch :
          SamePlanAs(CalculateOffsetsIfNeeded(OtherInstance(scratch)))


RECURSIVE SizesUpTo(_)
\* the sum of the sizes of records 0..(n - 1)
SizesUpTo(n) ==
    IF n = 0 THEN 0 ELSE SizesUpTo(n - 1) + requirements_[n - 1].size

NoBufferPinned ==
    \A i \in Buffers : requirements_[i].offline_offset = kOnlinePlannedBuffer

\* C30: after any query every registered buffer has an assigned offset that
\* is not negative, and when no buffer is pinned the end of every buffer and
\* the value of GetMaximumMemorySize are at most the sum of the sizes of all
\* registered buffers.
OffsetsInRange ==
    (AfterQuery /\ buffer_count_ > 0 /\ ~wild_write) =>
       /\ \A i \in Buffers :
             i \in DOMAIN buffer_offsets_ /\ buffer_offsets_[i] >= 0
       /\ NoBufferPinned =>
             /\ \A i \in Buffers :
                   buffer_offsets_[i] + requirements_[i].size
                      <= SizesUpTo(buffer_count_)
             /\ \E m \in {MaximumMemorySize(Self)} :
                   ~m.diverges /\ m.value <= SizesUpTo(buffer_count_)

=============================================================================
